---- MODULE Spec2Model ----
(***************************************************************************)
(* A model of the union dictionary searcher, tkrzw_union_searcher.py.      *)
(*                                                                         *)
(* A text is a sequence of characters (one-character strings).  A store is *)
(* the body database (normalized key -> list of entries) and the reverse   *)
(* translation index (normalized translation -> list of keys).  Floating   *)
(* point numbers are kept in fixed point: One stands for 1.0 in feature    *)
(* weights and scores, WOne for 1.0 in seed weights.                       *)
(***************************************************************************)
EXTENDS Integers, Sequences, FiniteSets, TLC

VARIABLES body_dbm, tran_index_dbm, call

vars == <<body_dbm, tran_index_dbm, call>>

----------------------------------------------------------------------------
(* Bounds of the model *)

\* the capacity argument of a call is drawn from -1 .. MaxCap
MaxCap == 3
\* a seed list given to ExpandEntries or SearchRelatedWithSeeds has at most MaxSeeds entries
MaxSeeds == 3

----------------------------------------------------------------------------
(* Texts *)

\* F(v): the value of v is taken once and F is applied to it
With(v, F(_)) == CHOOSE r \in {F(x) : x \in {v}} : TRUE

Min(x, y) == IF x < y THEN x ELSE y
Max(x, y) == IF x > y THEN x ELSE y

\* characters of the script classes \p{Han}, \p{Katakana} and the long vowel mark
HanKatakana == {"ka", "KA", "ji", "teki", "ho", "n"}

\* tkrzw_dict.NormalizeWord: a deterministic, idempotent canonicalization; the
\* letter "A" folds to "a" and the half-width "KA" to "ka"
Lower(ch) == IF ch = "A" THEN "a" ELSE IF ch = "KA" THEN "ka" ELSE ch
NormalizeWord(text) == [i \in 1..Len(text) |-> Lower(text[i])]

\* text.split(",")
RECURSIVE SplitComma(_)
SplitComma(text) ==
  IF \A i \in 1..Len(text) : text[i] # ","
  THEN <<text>>
  ELSE LET k == CHOOSE i \in 1..Len(text) :
                  text[i] = "," /\ \A j \in 1..(i - 1) : text[j] # ","
       IN <<SubSeq(text, 1, k - 1)>>
          \o With(SubSeq(text, k + 1, Len(text)), LAMBDA rest : SplitComma(rest))

\* tran.find(ja_word) >= 0
Find(tran, ja_word) ==
  \E i \in 0..(Len(tran) - Len(ja_word)) : SubSeq(tran, i + 1, i + Len(ja_word)) = ja_word

EndsWith(text, suffix) ==
  /\ Len(suffix) <= Len(text)
  /\ SubSeq(text, Len(text) - Len(suffix) + 1, Len(text)) = suffix

\* regex.sub(r"([\p{Han}\p{Katakana}ー]{2,})(s1|s2|...)$", r"\1", text): a suffix
\* is removed when the two characters before it are Han or Katakana
RegexSubSuffix(text, suffixes) ==
  LET hit == {s \in suffixes :
                /\ EndsWith(text, s)
                /\ Len(text) - Len(s) >= 2
                /\ text[Len(text) - Len(s)] \in HanKatakana
                /\ text[Len(text) - Len(s) - 1] \in HanKatakana}
  IN IF hit = {} THEN text
     ELSE LET s == CHOOSE x \in hit : \A y \in hit : Len(y) <= Len(x)
          IN SubSeq(text, 1, Len(text) - Len(s))

VerbSuffixes == {<<"su", "ru">>, <<"su", "ru", "ko", "to">>, <<"sa", "re", "ru">>,
                 <<"sa", "re", "ru", "ko", "to">>, <<"wo", "su", "ru">>}
AdjSuffixes == {<<"teki">>, <<"teki", "na">>, <<"teki", "ni">>}
FeatureSuffixes == VerbSuffixes \cup {<<"na">>, <<"ni">>, <<"sa">>}

\* the two substitutions ExpandEntries applies to a translation
StripTran(tran) == RegexSubSuffix(RegexSubSuffix(tran, VerbSuffixes), AdjSuffixes)

----------------------------------------------------------------------------
(* Stores *)

Entry(word, item, translation, related, parent, child, cooccurrence) ==
  [word |-> word, item |-> item, translation |-> translation, related |-> related,
   parent |-> parent, child |-> child, cooccurrence |-> cooccurrence]

wa == <<"a">>
wA == <<"A">>
wb == <<"b">>
wc == <<"c">>
wd == <<"d">>
tKanji == <<"ka", "ji">>
tKanjiSuru == <<"ka", "ji", "su", "ru">>
tKanaTeki == <<"KA", "ji", "teki">>
tHon == <<"ho", "n">>
noun == [pos |-> "noun"]
verb == [pos |-> "verb"]

\* shape 1: a chain of relations, translations and co-occurrences
\* shape 2: a hub whose neighbours tie in score
Ea(shape) ==
  IF shape = 1
  THEN Entry(wa, <<noun, verb>>, <<tKanjiSuru>>, <<wb, wc>>, <<>>, <<wd>>, <<wc>>)
  ELSE Entry(wa, <<noun>>, <<tHon>>, <<wb, wc, wd>>, <<>>, <<>>, <<wd>>)
EA(shape) ==
  IF shape = 1
  THEN Entry(wA, <<noun>>, <<tKanji>>, <<wb>>, <<>>, <<>>, <<>>)
  ELSE Entry(wA, <<verb>>, <<tKanji, tHon>>, <<>>, <<wa>>, <<>>, <<wc>>)
Eb(shape) ==
  IF shape = 1
  THEN Entry(wb, <<verb, verb>>, <<tKanji, tHon>>, <<wa>>, <<wc>>, <<>>, <<wd>>)
  ELSE Entry(wb, <<noun>>, <<>>, <<>>, <<>>, <<>>, <<>>)
Ec(shape) ==
  IF shape = 1
  THEN Entry(wc, <<verb>>, <<tHon>>, <<>>, <<>>, <<wb>>, <<wa>>)
  ELSE Entry(wc, <<noun>>, <<>>, <<>>, <<>>, <<>>, <<>>)
Ed(shape) ==
  IF shape = 1
  THEN Entry(wd, <<noun, noun>>, <<tKanaTeki>>, <<wc>>, <<>>, <<>>, <<>>)
  ELSE Entry(wd, <<noun>>, <<tKanaTeki>>, <<wa>>, <<>>, <<>>, <<>>)

\* homograph: the key "a" holds the entries "A" and "a"
Body(shape, homograph) ==
  (wa :> (IF homograph THEN <<EA(shape), Ea(shape)>> ELSE <<Ea(shape)>>))
  @@ (wb :> <<Eb(shape)>>) @@ (wc :> <<Ec(shape)>>) @@ (wd :> <<Ed(shape)>>)

\* stale: the index lists "c" under a translation no entry "c" has
TranIndex(stale) ==
  (tKanji :> (IF stale THEN <<wc, wa, wb, wd>> ELSE <<wa, wb, wd>>))
  @@ (tHon :> <<wb, wc, wa>>)

Shapes == {1, 2}

----------------------------------------------------------------------------
(* Storage reads.  A missing key reads as the empty list. *)

SearchBody(text) == IF text \in DOMAIN body_dbm THEN body_dbm[text] ELSE <<>>

SearchTranIndex(text) ==
  LET norm == NormalizeWord(text)
  IN IF norm \in DOMAIN tran_index_dbm THEN tran_index_dbm[norm] ELSE <<>>

----------------------------------------------------------------------------
(* SearchExact and SearchExactReverse.  Each returns its result list and   *)
(* the number of storage reads it issued.                                  *)

\* the loop over the entries of one key: lines 84-89
RECURSIVE SearchExactEntries(_, _, _, _)
SearchExactEntries(entries, j, acc, capacity) ==
  IF j > Len(entries) \/ Len(acc.result) >= capacity
  THEN acc
  ELSE LET word == entries[j].word
       IN IF word \in acc.uniq_words
          THEN SearchExactEntries(entries, j + 1, acc, capacity)
          ELSE With([acc EXCEPT !.uniq_words = @ \cup {word},
                                !.result = Append(@, entries[j])],
                    LAMBDA next : SearchExactEntries(entries, j + 1, next, capacity))

\* the loop over the comma-separated words: lines 78-83
RECURSIVE SearchExactWords(_, _, _, _)
SearchExactWords(words, i, acc, capacity) ==
  IF i > Len(words) \/ Len(acc.result) >= capacity
  THEN acc
  ELSE LET word == NormalizeWord(words[i])
       IN IF word = <<>>
          THEN SearchExactWords(words, i + 1, acc, capacity)
          ELSE With(SearchExactEntries(SearchBody(word), 1,
                                       [acc EXCEPT !.reads = @ + 1], capacity),
                    LAMBDA next : SearchExactWords(words, i + 1, next, capacity))

SearchExact(text, capacity) ==
  With(SearchExactWords(SplitComma(text), 1,
                        [result |-> <<>>, uniq_words |-> {}, reads |-> 0], capacity),
       LAMBDA acc : [result |-> acc.result, reads |-> acc.reads])

\* a list without its repeated elements, first occurrences kept in order
RECURSIVE UniqAppend(_, _, _)
UniqAppend(items, i, acc) ==
  IF i > Len(items) THEN acc
  ELSE With(IF \E k \in 1..Len(acc) : acc[k] = items[i] THEN acc
            ELSE Append(acc, items[i]),
            LAMBDA next : UniqAppend(items, i + 1, next))

RECURSIVE Concat(_, _)
Concat(lists, i) == IF i > Len(lists) THEN <<>> ELSE lists[i] \o Concat(lists, i + 1)

\* lines 93-100: the normalized, non-empty, distinct query terms
JaWords(text) ==
  LET words == SplitComma(text)
      norm == [i \in 1..Len(words) |-> NormalizeWord(words[i])]
  IN UniqAppend(SelectSeq(norm, LAMBDA w : w # <<>>), 1, <<>>)

\* lines 101-107: the distinct source words the reverse index lists
EnWords(ja_words) ==
  UniqAppend(Concat([i \in 1..Len(ja_words) |-> SearchTranIndex(ja_words[i])], 1), 1, <<>>)

\* lines 119-128: some normalized translation of the entry contains a query term
TranMatch(entry, ja_words) ==
  \E t \in 1..Len(entry.translation) : \E q \in 1..Len(ja_words) :
    Find(NormalizeWord(entry.translation[t]), ja_words[q])

\* a slip: an entry the index lists is accepted without looking at its translations
RECURSIVE SearchExactReverseEntriesUnconfirmed(_, _, _, _)
SearchExactReverseEntriesUnconfirmed(entries, j, acc, ja_words) ==
  IF j > Len(entries) \/ acc.capacity < 1
  THEN acc
  ELSE IF entries[j].word \in acc.uniq_words
       THEN SearchExactReverseEntriesUnconfirmed(entries, j + 1, acc, ja_words)
       ELSE With([acc EXCEPT !.uniq_words = @ \cup {entries[j].word},
                             !.result = Append(@, entries[j]),
                             !.capacity = @ - 1],
                 LAMBDA next :
                   SearchExactReverseEntriesUnconfirmed(entries, j + 1, next, ja_words))

\* the loop over the entries of one source word: lines 114-131
RECURSIVE SearchExactReverseEntries(_, _, _, _)
SearchExactReverseEntries(entries, j, acc, ja_words) ==
  IF j > Len(entries) \/ acc.capacity < 1
  THEN acc
  ELSE LET word == entries[j].word
       IN IF word \in acc.uniq_words
          THEN SearchExactReverseEntries(entries, j + 1, acc, ja_words)
          ELSE LET seen == [acc EXCEPT !.uniq_words = @ \cup {word}]
               IN With(IF TranMatch(entries[j], ja_words)
                       THEN [seen EXCEPT !.result = Append(@, entries[j]),
                                         !.capacity = @ - 1]
                       ELSE seen,
                       LAMBDA next : SearchExactReverseEntries(entries, j + 1, next, ja_words))

\* the loop over the source words: lines 110-113
RECURSIVE SearchExactReverseWords(_, _, _, _)
SearchExactReverseWords(en_words, i, acc, ja_words) ==
  IF i > Len(en_words) \/ acc.capacity < 1
  THEN acc
  ELSE With(SearchExactReverseEntries(SearchBody(en_words[i]), 1,
                                      [acc EXCEPT !.reads = @ + 1], ja_words),
            LAMBDA next : SearchExactReverseWords(en_words, i + 1, next, ja_words))

SearchExactReverse(text, capacity) ==
  With(JaWords(text), LAMBDA ja_words :
    With(EnWords(ja_words), LAMBDA en_words :
      With(SearchExactReverseWords(en_words, 1,
             [result |-> <<>>, uniq_words |-> {}, capacity |-> capacity,
              reads |-> Len(ja_words)], ja_words),
           LAMBDA acc : [result |-> acc.result, reads |-> acc.reads])))

----------------------------------------------------------------------------
(* GetFeatures and GetSimilarity *)

\* 1.0 of a feature weight or a score, in fixed point
One == 1000
\* 1.0 of a seed weight, in fixed point
WOne == 100000
\* SCORE_DECAY = 0.95, in units of One
SCORE_DECAY == 950
\* the slices [:20] of GetFeatures
FeatureItems == 20

Get(features, key) == IF key \in DOMAIN features THEN features[key] ELSE 0

Head20(list) == SubSeq(list, 1, Min(FeatureItems, Len(list)))

\* lines 224-229: the part-of-speech scores
RECURSIVE PosFeatures(_, _, _)
PosFeatures(items, i, acc) ==
  IF i > Len(items) THEN acc
  ELSE LET pos == <<"__", items[i].pos>>
           new_score == Get(acc.pos_features, pos) + acc.pos_score
       IN With([pos_features |-> (pos :> new_score) @@ acc.pos_features,
                pos_score_max |-> Max(acc.pos_score_max, new_score),
                pos_score |-> (acc.pos_score * SCORE_DECAY) \div One],
               LAMBDA next : PosFeatures(items, i + 1, next))

\* a slip: a word that is a key already still consumes a decay step
RECURSIVE FeaturePassCounting(_, _, _)
FeaturePassCounting(words, i, acc) ==
  IF i > Len(words) THEN acc
  ELSE LET score == (acc.score * SCORE_DECAY) \div One
       IN With(IF words[i] \in DOMAIN acc.features
               THEN [acc EXCEPT !.score = score]
               ELSE [features |-> (words[i] :> score) @@ acc.features, score |-> score],
               LAMBDA next : FeaturePassCounting(words, i + 1, next))

\* one of the passes of lines 233-256 over already normalized words: a word that is
\* no key yet takes the next decayed score
RECURSIVE FeaturePass(_, _, _)
FeaturePass(words, i, acc) ==
  IF i > Len(words) THEN acc
  ELSE IF words[i] \in DOMAIN acc.features
       THEN FeaturePass(words, i + 1, acc)
       ELSE LET score == (acc.score * SCORE_DECAY) \div One
            IN With([features |-> (words[i] :> score) @@ acc.features, score |-> score],
                    LAMBDA next : FeaturePass(words, i + 1, next))

\* lines 222-232: the headword and the normalized part-of-speech scores
WordAndPosFeatures(entry) ==
  With(PosFeatures(entry.item, 1,
         [pos_features |-> <<>>, pos_score_max |-> 0, pos_score |-> One]),
       LAMBDA p :
         [pos \in DOMAIN p.pos_features |->
            (p.pos_features[pos] * One) \div p.pos_score_max]
         @@ (NormalizeWord(entry.word) :> One))

GetFeatures(entry) ==
  LET rel_words == Head20(entry.related)
      trans == Head20(entry.translation)
      coocs == Head20(entry.cooccurrence)
  IN With([features |-> WordAndPosFeatures(entry), score |-> One], LAMBDA start :
       With(FeaturePass([i \in 1..Len(rel_words) |-> NormalizeWord(rel_words[i])], 1, start),
            LAMBDA r :
         With(FeaturePass([i \in 1..Len(trans) |->
                             RegexSubSuffix(NormalizeWord(trans[i]), FeatureSuffixes)], 1, r),
              LAMBDA t :
           FeaturePass([i \in 1..Len(coocs) |-> NormalizeWord(coocs[i])], 1, t).features)))

RECURSIVE SumOver(_, _)
SumOver(f, keys) ==
  IF keys = {} THEN 0
  ELSE With(CHOOSE x \in keys : TRUE, LAMBDA k :
         f[k] + With(keys \ {k}, LAMBDA rest : SumOver(f, rest)))

\* x ** 0.5, rounded down
RECURSIVE SqrtBetween(_, _, _)
SqrtBetween(x, lo, hi) ==
  IF lo >= hi THEN lo
  ELSE LET mid == (lo + hi + 1) \div 2
       IN With(IF mid * mid <= x THEN <<mid, hi>> ELSE <<lo, mid - 1>>,
               LAMBDA range : SqrtBetween(x, range[1], range[2]))
Sqrt(x) == SqrtBetween(x, 0, Min(x, 40000))

\* x / y in fixed point, rounded down: x * One \div y without the large product
Ratio(x, y) == (x \div y) * One + ((x % y) * One) \div y

\* lines 260-269: the dot product and the two squared norms over the seed's keys
Products(seed_features, cand_features) ==
  LET keys == DOMAIN seed_features
  IN [product |-> SumOver([k \in keys |-> seed_features[k] * Get(cand_features, k)], keys),
      seed_norm |-> SumOver([k \in keys |-> seed_features[k] * seed_features[k]], keys),
      cand_norm |-> SumOver([k \in keys |->
                               Get(cand_features, k) * Get(cand_features, k)], keys)]

\* a slip: the quotient is not clamped to 1.0
CosineUnclamped(product, seed_root, cand_root) ==
  Ratio(Ratio(product, seed_root), cand_root) \div One

\* line 268-269
Cosine(product, seed_root, cand_root) ==
  With(Min(Ratio(Ratio(product, seed_root), cand_root) \div One, One),
       LAMBDA score : IF score * 100000 >= 99999 * One THEN One ELSE score)

GetSimilarity(seed_features, cand_features) ==
  With(Products(seed_features, cand_features), LAMBDA p :
    IF p.cand_norm = 0 \/ p.seed_norm = 0 THEN 0
    ELSE With(<<Sqrt(p.seed_norm), Sqrt(p.cand_norm)>>, LAMBDA root :
           Cosine(p.product, root[1], root[2])))

----------------------------------------------------------------------------
(* The seed features of SearchRelatedWithSeeds: lines 273-284 *)

\* a slip: weight *= 0.01
DampenHundredth(weight) == weight \div 100

\* weight *= 0.1
Dampen(weight) == weight \div 10

\* base_weight *= 0.8
NextBaseWeight(base_weight) == (base_weight * 8) \div 10

\* seed_features[word] += score * weight, for every feature of the seed
AddFeatures(seed_features, features, weight) ==
  [word \in DOMAIN seed_features \cup DOMAIN features |->
     Get(seed_features, word) + (Get(features, word) * weight) \div WOne]

\* weights lists the weight of each seed, in order
RECURSIVE SeedFeatures(_, _, _)
SeedFeatures(seeds, i, acc) ==
  IF i > Len(seeds) THEN acc
  ELSE LET norm_word == NormalizeWord(seeds[i].word)
           weight == IF norm_word \in acc.uniq_words
                     THEN Dampen(acc.base_weight) ELSE acc.base_weight
       IN With([seed_features |->
                  With(GetFeatures(seeds[i]), LAMBDA features :
                    AddFeatures(acc.seed_features, features, weight)),
                base_weight |-> NextBaseWeight(acc.base_weight),
                uniq_words |-> acc.uniq_words \cup {norm_word},
                weights |-> Append(acc.weights, weight)],
               LAMBDA next : SeedFeatures(seeds, i + 1, next))

AggregateSeeds(seeds) ==
  SeedFeatures(seeds, 1, [seed_features |-> <<>>, base_weight |-> WOne,
                          uniq_words |-> {}, weights |-> <<>>])

----------------------------------------------------------------------------
(* The priority queue of ExpandEntries: heapq on a list of                 *)
(* (-score, num_steps, entry) tuples.  Positions count from 0 as in heapq. *)

\* tuple comparison; the scores and step numbers decide, the entries do not
LtItem(x, y) ==
  \/ x.negscore < y.negscore
  \/ x.negscore = y.negscore /\ x.steps < y.steps

RECURSIVE SiftDown(_, _, _, _)
SiftDown(heap, startpos, pos, newitem) ==
  IF pos > startpos
  THEN LET parentpos == (pos - 1) \div 2
           parent == heap[parentpos + 1]
       IN IF LtItem(newitem, parent)
          THEN With([heap EXCEPT ![pos + 1] = parent],
                    LAMBDA moved : SiftDown(moved, startpos, parentpos, newitem))
          ELSE [heap EXCEPT ![pos + 1] = newitem]
  ELSE [heap EXCEPT ![pos + 1] = newitem]

RECURSIVE SiftUp(_, _, _, _)
SiftUp(heap, startpos, pos, newitem) ==
  LET endpos == Len(heap)
      childpos == 2 * pos + 1
      rightpos == childpos + 1
  IN IF childpos < endpos
     THEN LET smaller == IF rightpos < endpos
                            /\ ~LtItem(heap[childpos + 1], heap[rightpos + 1])
                         THEN rightpos ELSE childpos
          IN With([heap EXCEPT ![pos + 1] = heap[smaller + 1]],
                  LAMBDA moved : SiftUp(moved, startpos, smaller, newitem))
     ELSE SiftDown([heap EXCEPT ![pos + 1] = newitem], startpos, pos, newitem)

\* heapq.heappush(heap, item)
HeapPush(heap, item) == SiftDown(Append(heap, item), 0, Len(heap), item)

\* heapq.heappop(heap): the item returned and the heap left
HeapPop(heap) ==
  LET lastelt == heap[Len(heap)]
      rest == SubSeq(heap, 1, Len(heap) - 1)
  IN IF rest # <<>>
     THEN [item |-> rest[1], heap |-> SiftUp([rest EXCEPT ![1] = lastelt], 0, 0, lastelt)]
     ELSE [item |-> lastelt, heap |-> rest]

----------------------------------------------------------------------------
(* ExpandEntries.  s is the state of one call: its arguments, its local    *)
(* variables and its position pc.                                          *)

\* One * log2(m), rounded down, for m up to 32
Log2Table == <<0, 1000, 1584, 2000, 2321, 2584, 2807, 3000, 3169, 3321, 3459,
               3584, 3700, 3807, 3906, 4000, 4087, 4169, 4247, 4321, 4392, 4459,
               4523, 4584, 4643, 4700, 4754, 4807, 4857, 4906, 4954, 5000>>
Log2(m) == Log2Table[m]

\* a slip: the capacity is compared with len(result)
CardResult(s) == Len(s.result)

\* len(checked_words)
Card(s) == Cardinality(s.checked_words)

\* a slip: the score is pushed without its sign turned
AddSeedMinHeap(s, entry) ==
  With(GetFeatures(entry), LAMBDA features :
    With([negscore |-> GetSimilarity(s.seed_features, features), steps |-> s.num_steps,
          entry |-> entry],
         LAMBDA item : [s EXCEPT !.seeds = HeapPush(@, item), !.num_steps = @ + 1]))

\* AddSeed: lines 138-143
AddSeed(s, entry) ==
  With(GetFeatures(entry), LAMBDA features :
    With([negscore |-> 0 - GetSimilarity(s.seed_features, features), steps |-> s.num_steps,
          entry |-> entry],
         LAMBDA item : [s EXCEPT !.seeds = HeapPush(@, item), !.num_steps = @ + 1]))

\* a slip: the seed's word is added to checked_words before it is looked up
SeedStepAddFirst(s) ==
  IF s.i > Len(s.seed_entries)
  THEN [s EXCEPT !.pc = "pop"]
  ELSE [s EXCEPT !.i = @ + 1, !.checked_words = @ \cup {s.seed_entries[s.i].word}]

\* a slip: a new seed is pushed but not added to checked_words
SeedStepUnmarked(s) ==
  IF s.i > Len(s.seed_entries)
  THEN [s EXCEPT !.pc = "pop"]
  ELSE IF s.seed_entries[s.i].word \in s.checked_words
       THEN [s EXCEPT !.i = @ + 1]
       ELSE AddSeed([s EXCEPT !.i = @ + 1], s.seed_entries[s.i])

\* lines 146-150, one seed entry
SeedStep(s) ==
  IF s.i > Len(s.seed_entries)
  THEN [s EXCEPT !.pc = "pop"]
  ELSE LET entry == s.seed_entries[s.i]
           word == entry.word
       IN IF word \in s.checked_words
          THEN [s EXCEPT !.i = @ + 1]
          ELSE AddSeed([s EXCEPT !.i = @ + 1, !.checked_words = @ \cup {word}], entry)

\* lines 160-168: the related, parent and child words, stably sorted by i + j
RelPairs(entry) ==
  [j \in 1..Len(entry.related) |-> [word |-> entry.related[j], key |-> 0 + (j - 1)]]
  \o [j \in 1..Len(entry.parent) |-> [word |-> entry.parent[j], key |-> 1 + (j - 1)]]
  \o [j \in 1..Len(entry.child) |-> [word |-> entry.child[j], key |-> 2 + (j - 1)]]

\* a slip: the merged list is left in append order
SortedByKeyAppendOrder(pairs, key, maxkey) == pairs

\* sorted(rel_words, key=lambda x: x[1]): a stable sort
RECURSIVE SortedByKey(_, _, _)
SortedByKey(pairs, key, maxkey) ==
  IF key > maxkey THEN <<>>
  ELSE SelectSeq(pairs, LAMBDA x : x.key = key) \o SortedByKey(pairs, key + 1, maxkey)

RelWords(entry) ==
  With(RelPairs(entry), LAMBDA pairs :
    With(SortedByKey(pairs, 0, Len(pairs) + 2), LAMBDA sorted :
      [j \in 1..Len(sorted) |-> sorted[j].word]))

\* max(int(limit / math.log2(len(result) + 1) * score), least)
FanOut(limit, least, len_result, score) ==
  Max((limit * score) \div Log2(len_result + 1), least)

\* a slip: the translations seen are forgotten at every pop
PopStepForgetTrans(s) ==
  With(HeapPop(s.seeds), LAMBDA popped :
    LET score == 0 - popped.item.negscore
        entry == popped.item.entry
        result == Append(s.result, entry)
        max_rel_words == FanOut(16, 4, Len(result), score)
        max_trans == FanOut(8, 2, Len(result), score)
    IN With(RelWords(entry), LAMBDA rel_words :
         [s EXCEPT !.seeds = popped.heap, !.score = score, !.cur_steps = popped.item.steps,
                   !.entry = entry, !.result = result, !.num_appends = 0,
                   !.rel_words = SubSeq(rel_words, 1, Min(max_rel_words, Len(rel_words))),
                   !.trans = SubSeq(entry.translation, 1,
                                    Min(max_trans, Len(entry.translation))),
                   !.checked_trans = {},
                   !.k = 1, !.pc = "rel"]))

\* lines 152-168: pop the best candidate and set up its fan-out
PopStep(s) ==
  With(HeapPop(s.seeds), LAMBDA popped :
    LET score == 0 - popped.item.negscore
        entry == popped.item.entry
        result == Append(s.result, entry)
        max_rel_words == FanOut(16, 4, Len(result), score)
        max_trans == FanOut(8, 2, Len(result), score)
    IN With(RelWords(entry), LAMBDA rel_words :
         [s EXCEPT !.seeds = popped.heap, !.score = score, !.cur_steps = popped.item.steps,
                   !.entry = entry, !.result = result, !.num_appends = 0,
                   !.rel_words = SubSeq(rel_words, 1, Min(max_rel_words, Len(rel_words))),
                   !.trans = SubSeq(entry.translation, 1,
                                    Min(max_trans, Len(entry.translation))),
                   !.k = 1, !.pc = "rel"]))

\* a slip: a found entry is pushed without looking it up in checked_words
RECURSIVE AddChildrenUnchecked(_, _, _)
AddChildrenUnchecked(s, children, j) ==
  IF j > Len(children) \/ Cardinality(s.checked_words) >= s.exp_capacity
  THEN s
  ELSE With(AddSeed([s EXCEPT !.checked_words = @ \cup {children[j].word},
                              !.num_appends = @ + 1], children[j]),
            LAMBDA next : AddChildrenUnchecked(next, children, j + 1))

\* lines 172-178 and 208-214: the entries SearchExact found for one word
RECURSIVE AddChildren(_, _, _)
AddChildren(s, children, j) ==
  IF j > Len(children) \/ Card(s) >= s.exp_capacity
  THEN s
  ELSE LET word == children[j].word
       IN IF word \in s.checked_words
          THEN AddChildren(s, children, j + 1)
          ELSE With(AddSeed([s EXCEPT !.checked_words = @ \cup {word},
                                      !.num_appends = @ + 1], children[j]),
                    LAMBDA next : AddChildren(next, children, j + 1))

\* lines 169-178, one related word
RelStep(s) ==
  IF s.k > Len(s.rel_words) \/ Card(s) >= s.exp_capacity
  THEN [s EXCEPT !.pc = "tran", !.k = 1]
  ELSE LET rel_word == s.rel_words[s.k]
       IN IF rel_word \in s.checked_words
          THEN [s EXCEPT !.k = @ + 1]
          ELSE With(SearchExact(rel_word, s.exp_capacity - Card(s)), LAMBDA found :
                 AddChildren([s EXCEPT !.k = @ + 1, !.reads = @ + found.reads],
                             found.result, 1))

\* line 191: min(capacity - len(checked_words), 10)
MaxChildren == 10
\* line 195: if num_tran_adopts >= 5: break
MaxTranAdopts == 5
\* line 205: if num_appends >= 8: break
MaxAppends == 8

\* a slip: no limit on the entries adopted for one translation
RECURSIVE AddTranChildrenUncapped(_, _, _, _)
AddTranChildrenUncapped(s, children, j, num_tran_adopts) ==
  IF j > Len(children) \/ Cardinality(s.checked_words) >= s.exp_capacity
  THEN [s EXCEPT !.num_tran_adopts = num_tran_adopts]
  ELSE IF children[j].word \in s.checked_words
       THEN AddTranChildrenUncapped(s, children, j + 1, num_tran_adopts)
       ELSE With(AddSeed([s EXCEPT !.checked_words = @ \cup {children[j].word},
                                   !.num_appends = @ + 1], children[j]),
                 LAMBDA next :
                   AddTranChildrenUncapped(next, children, j + 1, num_tran_adopts + 1))

\* lines 193-201: the entries SearchExactReverse found for one translation
RECURSIVE AddTranChildren(_, _, _, _)
AddTranChildren(s, children, j, num_tran_adopts) ==
  IF j > Len(children) \/ Card(s) >= s.exp_capacity \/ num_tran_adopts >= MaxTranAdopts
  THEN [s EXCEPT !.num_tran_adopts = num_tran_adopts]
  ELSE LET word == children[j].word
       IN IF word \in s.checked_words
          THEN AddTranChildren(s, children, j + 1, num_tran_adopts)
          ELSE With(AddSeed([s EXCEPT !.checked_words = @ \cup {word},
                                      !.num_appends = @ + 1], children[j]),
                    LAMBDA next : AddTranChildren(next, children, j + 1, num_tran_adopts + 1))

\* a slip: a translation seen before is never stepped over
TranStepStuck(s) ==
  IF s.k > Len(s.trans) \/ Cardinality(s.checked_words) >= s.exp_capacity
  THEN [s EXCEPT !.pc = "cooc", !.k = 1]
  ELSE With(StripTran(s.trans[s.k]), LAMBDA tran :
          IF tran \in s.checked_trans
          THEN s
          ELSE LET max_children == Min(s.exp_capacity - Cardinality(s.checked_words), 10)
               IN With(SearchExactReverse(tran, max_children), LAMBDA found :
                    AddTranChildren([s EXCEPT !.k = @ + 1, !.checked_trans = @ \cup {tran},
                                              !.max_children = max_children,
                                              !.reads = @ + found.reads],
                                    found.result, 1, 0)))

\* lines 181-201, one translation
TranStep(s) ==
  IF s.k > Len(s.trans) \/ Card(s) >= s.exp_capacity
  THEN [s EXCEPT !.pc = "cooc", !.k = 1]
  ELSE With(StripTran(s.trans[s.k]), LAMBDA tran :
          IF tran \in s.checked_trans
          THEN [s EXCEPT !.k = @ + 1]
          ELSE LET max_children == Min(s.exp_capacity - Card(s), MaxChildren)
               IN With(SearchExactReverse(tran, max_children), LAMBDA found :
                    AddTranChildren([s EXCEPT !.k = @ + 1, !.checked_trans = @ \cup {tran},
                                              !.max_children = max_children,
                                              !.reads = @ + found.reads],
                                    found.result, 1, 0)))

\* lines 204-214, one co-occurrence word
CoocStep(s) ==
  LET coocs == s.entry.cooccurrence
  IN IF s.k > Len(coocs) \/ s.num_appends >= MaxAppends \/ Card(s) >= s.exp_capacity
     THEN [s EXCEPT !.pc = "pop", !.k = 1]
     ELSE LET cooc == coocs[s.k]
          IN IF cooc \in s.checked_words
             THEN [s EXCEPT !.k = @ + 1]
             ELSE With(SearchExact(cooc, s.exp_capacity - Card(s)), LAMBDA found :
                    AddChildren([s EXCEPT !.k = @ + 1, !.reads = @ + found.reads],
                                found.result, 1))

----------------------------------------------------------------------------
(* Calls *)

Procs == {1, 2}

NoEntry == Entry(<<>>, <<>>, <<>>, <<>>, <<>>, <<>>, <<>>)

\* a call of op with its arguments, before it runs
NewCall(op, text, seed_entries, seed_features, capacity) ==
  [op |-> op, text |-> text, seed_entries |-> seed_entries,
   seed_features |-> seed_features, capacity |-> capacity,
   pc |-> "start", weights |-> <<>>, exp_capacity |-> 0,
   result |-> <<>>, seeds |-> <<>>, num_steps |-> 0,
   checked_words |-> {}, checked_trans |-> {}, i |-> 1,
   score |-> 0, cur_steps |-> 0, entry |-> NoEntry, num_appends |-> 0,
   rel_words |-> <<>>, trans |-> <<>>, k |-> 1,
   max_children |-> 0, num_tran_adopts |-> 0,
   reads |-> 0, ret |-> <<>>]

NoCall == [NewCall("none", <<>>, <<>>, <<>>, 0) EXCEPT !.pc = "idle"]

\* a slip: the whole list is returned
SliceAll(list, n) == list

\* result[:capacity]
Slice(list, n) ==
  IF n >= 0 THEN SubSeq(list, 1, Min(n, Len(list)))
  ELSE SubSeq(list, 1, Max(Len(list) + n, 0))

\* int(x / 10), which rounds toward zero
IntTenth(x) == IF x >= 0 THEN x \div 10 ELSE 0 - ((0 - x) \div 10)

\* max(int(capacity * 1.2), 100)
MinExpandCapacity == 100
ExpandCapacity(capacity) == Max(IntTenth(capacity * 12), MinExpandCapacity)

\* a slip: checked_words is kept on the searcher object, so every call sees it
StepShared(c, s) ==
  /\ call' = [d \in Procs |-> IF d = c THEN s
                              ELSE [call[d] EXCEPT !.checked_words = s.checked_words]]
  /\ UNCHANGED <<body_dbm, tran_index_dbm>>

\* a slip: checked_trans is kept on the searcher object, so every call sees it
StepSharedTrans(c, s) ==
  /\ call' = [d \in Procs |-> IF d = c THEN s
                              ELSE [call[d] EXCEPT !.checked_trans = s.checked_trans]]
  /\ UNCHANGED <<body_dbm, tran_index_dbm>>

\* the call c moves to s; its variables are local to it and the store is only read
Step(c, s) == call' = [call EXCEPT ![c] = s] /\ UNCHANGED <<body_dbm, tran_index_dbm>>

At(c, op, pc) == call[c].op = op /\ call[c].pc = pc

CallSearchExact(c) ==
  /\ At(c, "SearchExact", "start")
  /\ \E found \in {SearchExact(call[c].text, call[c].capacity)} :
       Step(c, [call[c] EXCEPT !.ret = found.result, !.reads = found.reads, !.pc = "done"])

CallSearchExactReverse(c) ==
  /\ At(c, "SearchExactReverse", "start")
  /\ \E found \in {SearchExactReverse(call[c].text, call[c].capacity)} :
       Step(c, [call[c] EXCEPT !.ret = found.result, !.reads = found.reads, !.pc = "done"])

\* the seeds of SearchRelated and SearchRelatedReverse: lines 289-293, 297-301
RECURSIVE ResolveSeeds(_, _, _, _, _)
ResolveSeeds(reverse, words, i, capacity, acc) ==
  IF i > Len(words) THEN acc
  ELSE IF words[i] = <<>> THEN ResolveSeeds(reverse, words, i + 1, capacity, acc)
  ELSE With(IF reverse THEN SearchExactReverse(words[i], capacity)
            ELSE SearchExact(words[i], capacity),
            LAMBDA found :
              With([result |-> acc.result \o found.result, reads |-> acc.reads + found.reads],
                   LAMBDA next : ResolveSeeds(reverse, words, i + 1, capacity, next)))

CallSearchRelated(c) ==
  /\ At(c, "SearchRelated", "start")
  /\ \E found \in {ResolveSeeds(FALSE, SplitComma(call[c].text), 1, call[c].capacity,
                                   [result |-> <<>>, reads |-> 0])} :
       Step(c, [call[c] EXCEPT !.seed_entries = found.result, !.reads = found.reads,
                               !.pc = "with_seeds"])

CallSearchRelatedReverse(c) ==
  /\ At(c, "SearchRelatedReverse", "start")
  /\ \E found \in {ResolveSeeds(TRUE, SplitComma(call[c].text), 1, call[c].capacity,
                                   [result |-> <<>>, reads |-> 0])} :
       Step(c, [call[c] EXCEPT !.seed_entries = found.result, !.reads = found.reads,
                               !.pc = "with_seeds"])

RelatedOps == {"SearchRelated", "SearchRelatedReverse", "SearchRelatedWithSeeds"}

\* SearchRelatedWithSeeds up to its call of ExpandEntries: lines 273-285
CallSearchRelatedWithSeeds(c) ==
  /\ \/ At(c, "SearchRelatedWithSeeds", "start")
     \/ call[c].op \in RelatedOps /\ call[c].pc = "with_seeds"
  /\ \E agg \in {AggregateSeeds(call[c].seed_entries)} :
       Step(c, [call[c] EXCEPT !.seed_features = agg.seed_features,
                               !.weights = agg.weights,
                               !.exp_capacity = ExpandCapacity(call[c].capacity),
                               !.pc = "seeds"])

\* ExpandEntries(seed_entries, seed_features, capacity) called by itself
CallExpandEntries(c) ==
  /\ At(c, "ExpandEntries", "start")
  /\ Step(c, [call[c] EXCEPT !.exp_capacity = call[c].capacity, !.pc = "seeds"])

ExpandSeed(c) == call[c].pc = "seeds" /\ Step(c, SeedStep(call[c]))

Pop(c) == call[c].pc = "pop" /\ call[c].seeds # <<>> /\ Step(c, PopStep(call[c]))

Related(c) == call[c].pc = "rel" /\ Step(c, RelStep(call[c]))

Translation(c) == call[c].pc = "tran" /\ Step(c, TranStep(call[c]))

Cooccurrence(c) == call[c].pc = "cooc" /\ Step(c, CoocStep(call[c]))

\* a slip: the loop also ends when the visited set has reached the capacity
ReturnAtCapacity(c) ==
  /\ call[c].pc = "pop"
  /\ call[c].seeds = <<>> \/ Cardinality(call[c].checked_words) >= call[c].exp_capacity
  /\ Step(c, [call[c] EXCEPT !.pc = "done",
                !.ret = IF call[c].op \in RelatedOps
                        THEN Slice(call[c].result, call[c].capacity)
                        ELSE call[c].result])

\* line 215, and line 286 for the callers that truncate
Return(c) ==
  /\ call[c].pc = "pop" /\ call[c].seeds = <<>>
  /\ Step(c, [call[c] EXCEPT !.pc = "done",
                !.ret = IF call[c].op \in RelatedOps
                        THEN Slice(call[c].result, call[c].capacity)
                        ELSE call[c].result])

Next ==
  \E c \in Procs :
    \/ CallSearchExact(c)
    \/ CallSearchExactReverse(c)
    \/ CallSearchRelated(c)
    \/ CallSearchRelatedReverse(c)
    \/ CallSearchRelatedWithSeeds(c)
    \/ CallExpandEntries(c)
    \/ ExpandSeed(c)
    \/ Pop(c)
    \/ Related(c)
    \/ Translation(c)
    \/ Cooccurrence(c)
    \/ Return(c)

----------------------------------------------------------------------------
(* Inputs *)

Capacities == (0 - 1)..MaxCap

Texts == {<<>>, wa, wA, <<"a", ",", "b">>, <<"b", ",", ",", "A">>, <<"e">>}

ReverseTexts == {<<>>, tKanji, tHon, <<"KA", "ji">>, <<"ji">>,
                 <<"ka", "ji", ",", "ho", "n">>}

\* seed lists are drawn from the entries stored under "a" and "b"
SeedPool == {body_dbm[wa][j] : j \in 1..Len(body_dbm[wa])} \cup {body_dbm[wb][1]}
SeedLists == UNION {[1..n -> SeedPool] : n \in 0..MaxSeeds}

Calls ==
  {NewCall("SearchExact", t, <<>>, <<>>, n) : t \in Texts, n \in Capacities}
  \cup {NewCall("SearchExactReverse", t, <<>>, <<>>, n) : t \in ReverseTexts, n \in Capacities}
  \cup {NewCall("SearchRelated", t, <<>>, <<>>, n) : t \in Texts, n \in Capacities}
  \cup {NewCall("SearchRelatedReverse", t, <<>>, <<>>, n) : t \in ReverseTexts, n \in Capacities}
  \cup {NewCall("SearchRelatedWithSeeds", <<>>, l, <<>>, n) : l \in SeedLists, n \in Capacities}
  \cup {NewCall("ExpandEntries", <<>>, l, AggregateSeeds(l).seed_features, n) :
          l \in SeedLists, n \in Capacities}

InitStore ==
  \E shape \in Shapes, homograph \in BOOLEAN, stale \in BOOLEAN :
    /\ body_dbm = Body(shape, homograph)
    /\ tran_index_dbm = TranIndex(stale)

\* one call on a store
Init ==
  /\ InitStore
  /\ \E a \in Calls : call = [c \in Procs |-> IF c = 1 THEN a ELSE NoCall]

Spec == Init /\ [][Next]_vars

\* the calls followed to their end: every expansion of at most two seeds at every
\* capacity, and one call of each other operation
FairCalls ==
  {NewCall("ExpandEntries", <<>>, l, AggregateSeeds(l).seed_features, n) :
     l \in UNION {[1..n -> SeedPool] : n \in 0..2}, n \in Capacities}
  \cup {NewCall("SearchExact", <<"a", ",", "b">>, <<>>, <<>>, 2),
        NewCall("SearchExactReverse", tKanji, <<>>, <<>>, 2),
        NewCall("SearchRelated", wa, <<>>, <<>>, MaxCap),
        NewCall("SearchRelatedReverse", tHon, <<>>, <<>>, MaxCap),
        NewCall("SearchRelatedWithSeeds", <<>>, <<body_dbm[wb][1]>>, <<>>, MaxCap)}

InitFair ==
  /\ InitStore
  /\ \E a \in FairCalls : call = [c \in Procs |-> IF c = 1 THEN a ELSE NoCall]

\* a call runs to its end: the interpreter keeps executing it
FairSpec == InitFair /\ [][Next]_vars /\ WF_vars(Next)

\* two calls on the same searcher, interleaved step by step
PairCalls ==
  {NewCall("SearchExact", <<"a", ",", "b">>, <<>>, <<>>, 2),
   NewCall("SearchExactReverse", tKanji, <<>>, <<>>, 2),
   NewCall("SearchRelated", wa, <<>>, <<>>, 2),
   NewCall("SearchRelatedReverse", tHon, <<>>, <<>>, MaxCap)}
  \cup {NewCall("SearchRelatedWithSeeds", <<>>, l, <<>>, MaxCap) :
          l \in {<<body_dbm[wb][1]>>, <<body_dbm[wa][1], body_dbm[wb][1]>>}}
  \cup {NewCall("ExpandEntries", <<>>, l, AggregateSeeds(l).seed_features, MaxCap) :
          l \in {<<body_dbm[wa][1]>>, <<body_dbm[wb][1], body_dbm[wa][1]>>}}

InitPair ==
  /\ \E shape \in Shapes, stale \in BOOLEAN :
       body_dbm = Body(shape, TRUE) /\ tran_index_dbm = TranIndex(stale)
  /\ \E a \in PairCalls, b \in PairCalls : call = [c \in Procs |-> IF c = 1 THEN a ELSE b]

SpecPair == InitPair /\ [][Next]_vars

----------------------------------------------------------------------------
(* A store with a wide fan-out: a hub "h" with two related words, a        *)
(* translation six entries share and a co-occurrence word whose key holds  *)
(* two homographs; an entry "m" with related, parent and child words; a    *)
(* key "j" that holds two entries of the same headword.                    *)

wh == <<"h">>
wm == <<"m">>
wp == <<"p">>
wq == <<"q">>
wr == <<"r">>
ws == <<"s">>
wt == <<"t">>
wu == <<"u">>
wj == <<"j">>
tEki == <<"e", "ki">>
tYama == <<"ya", "ma">>

Plain(word, translation) == Entry(word, <<noun>>, translation, <<>>, <<>>, <<>>, <<>>)

Eh == Entry(wh, <<noun>>, <<tEki>>, <<wb, wm>>, <<>>, <<>>, <<wa>>)
Em == Entry(wm, <<verb>>, <<>>, <<wb, wc, wp>>, <<wq>>, <<wr>>, <<>>)

BodyWide ==
  (wh :> <<Eh>>) @@ (wm :> <<Em>>)
  @@ (wa :> <<Plain(wA, <<>>), Plain(wa, <<>>)>>)
  @@ (wb :> <<Plain(wb, <<>>)>>) @@ (wc :> <<Plain(wc, <<>>)>>)
  @@ (wp :> <<Plain(wp, <<tEki>>)>>) @@ (wq :> <<Plain(wq, <<tEki>>)>>)
  @@ (wr :> <<Plain(wr, <<tEki>>)>>) @@ (ws :> <<Plain(ws, <<tEki>>)>>)
  @@ (wt :> <<Plain(wt, <<tEki>>)>>) @@ (wu :> <<Plain(wu, <<tEki>>)>>)
  @@ (wj :> <<Plain(wj, <<tHon>>), Entry(wj, <<verb>>, <<tYama>>, <<>>, <<>>, <<>>, <<>>)>>)

TranIndexWide ==
  (tEki :> <<wp, wq, wr, ws, wt, wu>>) @@ (tYama :> <<wj>>) @@ (tHon :> <<wj>>)

\* the largest capacity of an expansion called by itself on the wide store
MaxWideCap == 12

WideCalls ==
  {NewCall("SearchExact", t, <<>>, <<>>, n) : t \in {wa, wj, <<"h", ",", "m">>}, n \in 1..2}
  \cup {NewCall("SearchExactReverse", t, <<>>, <<>>, n) :
          t \in {tEki, tYama, tHon, <<"ya", "ma", ",", "ho", "n">>}, n \in 1..7}
  \cup {NewCall("SearchRelated", t, <<>>, <<>>, n) : t \in {wh, wm}, n \in {2, MaxWideCap}}
  \cup {NewCall("SearchRelatedReverse", t, <<>>, <<>>, 2) : t \in {tEki, tYama}}
  \cup {NewCall("SearchRelatedWithSeeds", <<>>, l, <<>>, MaxWideCap) :
          l \in {<<Eh>>, <<Em, Eh>>}}
  \cup {NewCall("ExpandEntries", <<>>, l, AggregateSeeds(l).seed_features, n) :
          l \in {<<Eh>>, <<Eh, Em>>}, n \in 0..MaxWideCap}

InitWide ==
  /\ body_dbm = BodyWide /\ tran_index_dbm = TranIndexWide
  /\ \E a \in WideCalls : call = [c \in Procs |-> IF c = 1 THEN a ELSE NoCall]

SpecWide == InitWide /\ [][Next]_vars

----------------------------------------------------------------------------
(* GetFeatures and GetSimilarity called on their own *)

FeaturesCall(entry) == [op |-> "GetFeatures", pc |-> "start", entry |-> entry, ret |-> <<>>]

SimilarityCall(seed_features, cand_features) ==
  [op |-> "GetSimilarity", pc |-> "start", seed_features |-> seed_features,
   cand_features |-> cand_features, ret |-> 0]

CallGetFeatures(c) ==
  /\ At(c, "GetFeatures", "start")
  /\ \E features \in {GetFeatures(call[c].entry)} :
       Step(c, [call[c] EXCEPT !.pc = "done", !.ret = features])

CallGetSimilarity(c) ==
  /\ At(c, "GetSimilarity", "start")
  /\ \E score \in {GetSimilarity(call[c].seed_features, call[c].cand_features)} :
       Step(c, [call[c] EXCEPT !.pc = "done", !.ret = score])

NextPure == \E c \in Procs : CallGetFeatures(c) \/ CallGetSimilarity(c)

\* more words than one pass of GetFeatures reads
LongLen == 22
LongList == [i \in 1..LongLen |-> [j \in 1..i |-> "x"]]

tKanjiNa == <<"ka", "ji", "na">>

FeatureEntries ==
  {Entry(word, item, translation, related, <<>>, <<>>, cooccurrence) :
     word \in {wa, wA},
     item \in {<<noun>>, <<noun, verb>>},
     translation \in {<<>>, <<tKanji>>, <<tKanjiSuru, tKanji, tHon>>,
                      <<tKanaTeki, tKanjiNa>>, Tail(LongList)},
     related \in {<<>>, <<wb>>, <<wa, wb>>, <<wb, wb, wc>>, <<wA, wc, wb>>,
                  LongList, <<wb, wb>> \o LongList},
     cooccurrence \in {<<>>, <<wb>>, <<wd, wb>>, <<wa, wd, wd, tKanji>>}}

\* feature weights and summed seed weights
Weights == {250, 950, One, 1800}
FeatureKeys == {wa, wb, wc}
FeatureVectors == UNION {[keys -> Weights] : keys \in SUBSET FeatureKeys}

PureCalls ==
  {FeaturesCall(e) : e \in FeatureEntries}
  \cup {SimilarityCall(f, g) : f \in FeatureVectors, g \in FeatureVectors}

InitPure ==
  /\ body_dbm = Body(1, FALSE) /\ tran_index_dbm = TranIndex(FALSE)
  /\ \E a \in PureCalls : call = [c \in Procs |-> IF c = 1 THEN a ELSE NoCall]

SpecPure == InitPure /\ [][NextPure]_vars

----------------------------------------------------------------------------
(* Properties *)

Range(list) == {list[i] : i \in 1..Len(list)}

SeedOps == {"SearchRelatedWithSeeds", "ExpandEntries"}

\* the number of distinct headwords among the seed entries of call c
DistinctSeedWords(c) == Cardinality({e.word : e \in Range(call[c].seed_entries)})

\* C1: SearchRelatedWithSeeds called with a capacity C >= 0 returns at most C
\* entries, and no entry when C = 0.
C1_ResultWithinCapacity ==
  \A c \in Procs :
    (call[c].op \in RelatedOps /\ call[c].pc = "done" /\ call[c].capacity >= 0)
      => /\ Len(call[c].ret) <= call[c].capacity
         /\ call[c].capacity = 0 => call[c].ret = <<>>

\* the expansion found more entries than the capacity and the result was cut to it
C1_Witness ==
  \E c \in Procs :
    /\ call[c].op = "SearchRelatedWithSeeds" /\ call[c].pc = "done"
    /\ call[c].capacity >= 1
    /\ Len(call[c].result) > call[c].capacity
    /\ Len(call[c].ret) = call[c].capacity

C3_CapacityHardBound ==
  \A c \in Procs :
    call[c].exp_capacity >= 0
      => /\ Cardinality(call[c].checked_words) <= call[c].exp_capacity
         /\ call[c].num_steps <= call[c].exp_capacity
         /\ Len(call[c].result) <= call[c].exp_capacity

\* C3 amended: the visited headwords, the pushes and the output never exceed the
\* larger of the capacity and the number of distinct seed headwords.
C3_CapacityBoundBeyondSeeds ==
  \A c \in Procs :
    call[c].exp_capacity >= 0
      => LET bound == Max(call[c].exp_capacity, DistinctSeedWords(c))
         IN /\ Cardinality(call[c].checked_words) <= bound
            /\ call[c].num_steps <= bound
            /\ Len(call[c].result) <= bound

\* the fan-out filled a capacity larger than the seeds and smaller than the store
C3_Witness ==
  \E c \in Procs :
    /\ call[c].op = "ExpandEntries" /\ call[c].pc = "done"
    /\ DistinctSeedWords(c) >= 1
    /\ call[c].exp_capacity > DistinctSeedWords(c)
    /\ call[c].exp_capacity < Cardinality(DOMAIN body_dbm)
    /\ Cardinality(call[c].checked_words) = call[c].exp_capacity
    /\ call[c].num_steps = call[c].exp_capacity
    /\ Len(call[c].result) = call[c].exp_capacity

EntryPoints == {"SearchExact", "SearchExactReverse", "SearchRelated",
                "SearchRelatedReverse", "SearchRelatedWithSeeds"}

\* C4 as stated: a search entry point called with capacity <= 0 returns the empty
\* list and issues no storage read.
C4_NonPositiveCapacityEmptyWithoutReads ==
  \A c \in Procs :
    (call[c].op \in EntryPoints /\ call[c].pc = "done" /\ call[c].capacity <= 0)
      => call[c].ret = <<>> /\ call[c].reads = 0

\* the normalized, non-empty terms of a comma-separated query
QueryTerms(text) == {NormalizeWord(w) : w \in Range(SplitComma(text))} \ {<<>>}

Contains(text, part) ==
  \E i \in 0..Len(text) : \E j \in i..Len(text) : SubSeq(text, i + 1, j) = part

\* some normalized translation of the entry contains a term of the query
Confirms(entry, text) ==
  \E t \in Range(entry.translation) : \E q \in QueryTerms(text) :
    Contains(NormalizeWord(t), q)

StoredEntries == UNION {Range(body_dbm[key]) : key \in DOMAIN body_dbm}

\* a source word the reverse index lists for the query though no stored entry with
\* that headword has a translation that contains a query term
StaleFor(text) ==
  {W \in UNION {Range(SearchTranIndex(q)) : q \in QueryTerms(text)} :
     \A e \in StoredEntries : e.word = W => ~Confirms(e, text)}

\* C5: every entry SearchExactReverse returns has a normalized translation that
\* contains a normalized query term, and no returned entry has a headword the
\* reverse index lists without any entry of that headword confirming it.
C5_ReverseLookupIntegrity ==
  \A c \in Procs :
    (call[c].op = "SearchExactReverse" /\ call[c].pc = "done")
      => /\ \A e \in Range(call[c].ret) : Confirms(e, call[c].text)
         /\ \A e \in Range(call[c].ret) : e.word \notin StaleFor(call[c].text)

\* the index lists a stale source word, and the call returned the others uncut
C5_Witness ==
  \E c \in Procs :
    /\ call[c].op = "SearchExactReverse" /\ call[c].pc = "done"
    /\ StaleFor(call[c].text) # {}
    /\ call[c].ret # <<>>
    /\ Len(call[c].ret) < call[c].capacity

FirstOccurrence(seeds, i) ==
  \A k \in 1..(i - 1) : NormalizeWord(seeds[k].word) # NormalizeWord(seeds[i].word)

\* seeds[j] is the second seed with the normalized headword first seen at seeds[i]
SecondOccurrence(seeds, i, j) ==
  /\ i < j
  /\ FirstOccurrence(seeds, i)
  /\ NormalizeWord(seeds[i].word) = NormalizeWord(seeds[j].word)
  /\ \A k \in (i + 1)..(j - 1) :
       NormalizeWord(seeds[k].word) # NormalizeWord(seeds[i].word)

RECURSIVE Pow(_, _)
Pow(x, n) == IF n = 0 THEN 1 ELSE x * Pow(x, n - 1)

\* C6 as stated: the weight of the second seed with a normalized headword is 0.1
\* times the weight of the first.
C6_SecondSeedTenthOfFirst ==
  \A c \in Procs : \A i, j \in 1..Len(call[c].weights) :
    SecondOccurrence(call[c].seed_entries, i, j)
      => call[c].weights[j] * 10 = call[c].weights[i]

\* C6 amended: the weight of the second seed is 0.1 times the base weight of its
\* place in the list, which is 0.8 ^ (j - i) times the weight of the first.
C6_SecondSeedTenthOfBase ==
  \A c \in Procs : \A i, j \in 1..Len(call[c].weights) :
    SecondOccurrence(call[c].seed_entries, i, j)
      => call[c].weights[j] * 10 * Pow(10, j - i) = call[c].weights[i] * Pow(8, j - i)

\* two seeds of one normalized headword with another seed between them
C6_Witness ==
  \E c \in Procs : \E i, j \in 1..Len(call[c].weights) :
    /\ call[c].op = "SearchRelatedWithSeeds"
    /\ SecondOccurrence(call[c].seed_entries, i, j)
    /\ j > i + 1

\* C7: SearchRelatedWithSeeds([seed], C) with C >= 1 returns a non-empty list that
\* starts with the seed.
C7_SingleSeedFirst ==
  \A c \in Procs :
    (/\ call[c].op = "SearchRelatedWithSeeds" /\ call[c].pc = "done"
     /\ Len(call[c].seed_entries) = 1 /\ call[c].capacity >= 1)
      => call[c].ret # <<>> /\ call[c].ret[1] = call[c].seed_entries[1]

\* a single seed whose expansion returned other entries after it
C7_Witness ==
  \E c \in Procs :
    /\ call[c].op = "SearchRelatedWithSeeds" /\ call[c].pc = "done"
    /\ Len(call[c].seed_entries) = 1 /\ call[c].capacity >= 2
    /\ Len(call[c].ret) >= 2
    /\ call[c].ret[1] = call[c].seed_entries[1]

\* the step numbers of the pending candidates differ and are below num_steps
StepsUnique ==
  \A c \in Procs : \A i, j \in 1..Len(call[c].seeds) :
    /\ call[c].seeds[i].steps < call[c].num_steps
    /\ i # j => call[c].seeds[i].steps # call[c].seeds[j].steps

\* the score of a candidate of call c: the similarity of its entry to the seeds
ScoreOf(c, x) == GetSimilarity(call[c].seed_features, GetFeatures(x.entry))

\* a pop of call c takes the pending candidate of the highest score and, among
\* those, of the lowest step number, and leaves the others pending
PopsBest(c) ==
  (call[c].pc = "pop" /\ call'[c].pc = "rel")
    => LET pending == Range(call[c].seeds)
           popped == [negscore |-> 0 - call'[c].score, steps |-> call'[c].cur_steps,
                      entry |-> call'[c].entry]
       IN /\ popped \in pending
          /\ call'[c].score = ScoreOf(c, popped)
          /\ \A x \in pending :
               /\ ScoreOf(c, x) <= call'[c].score
               /\ ScoreOf(c, x) = call'[c].score => call'[c].cur_steps <= x.steps
          /\ Range(call'[c].seeds) = pending \ {popped}
          /\ Len(call'[c].seeds) = Len(call[c].seeds) - 1

\* C8: every pop removes the pending candidate with the highest score, the earliest
\* pushed among equals; step numbers are unique and increasing, so entries never
\* decide a comparison.
C8_PopsHighestScoreEarliest ==
  [](StepsUnique) /\ [][\A c \in Procs : PopsBest(c)]_vars

\* just after a pop: a candidate of the same score pushed later is still pending,
\* and so is a candidate of a lower score
C8_Witness ==
  \E c \in Procs :
    /\ call[c].pc = "rel" /\ call[c].k = 1
    /\ \E x \in Range(call[c].seeds) :
         0 - x.negscore = call[c].score /\ x.steps > call[c].cur_steps
    /\ \E y \in Range(call[c].seeds) : 0 - y.negscore < call[c].score

\* the two calls have the same arguments
SameArguments ==
  /\ call[1].op = call[2].op
  /\ call[1].text = call[2].text
  /\ call[1].capacity = call[2].capacity
  /\ call[1].op \in SeedOps => call[1].seed_entries = call[2].seed_entries
  /\ call[1].op = "ExpandEntries" => call[1].seed_features = call[2].seed_features

C10_ExpandTerminates ==
  \A c \in Procs :
    (call[c].pc = "seeds") ~> (call[c].pc = "done" /\ call[c].seeds = <<>>)

\* an expansion that returned after its fan-out had filled the capacity
C10_Witness ==
  \E c \in Procs :
    /\ call[c].op = "ExpandEntries" /\ call[c].pc = "done" /\ call[c].seeds = <<>>
    /\ call[c].num_steps > DistinctSeedWords(c)
    /\ Cardinality(call[c].checked_words) = call[c].exp_capacity

\* the headwords of the pending candidates and of the output of call c
PendingWords(c) == {x.entry.word : x \in Range(call[c].seeds)}
OutputWords(c) == {e.word : e \in Range(call[c].result)}

\* every visited headword was pushed once: it is pending or in the output, and no
\* two pushed entries have the same headword
PushedOncePerHeadword(c) ==
  /\ PendingWords(c) \cup OutputWords(c) = call[c].checked_words
  /\ Len(call[c].seeds) + Len(call[c].result) = Cardinality(call[c].checked_words)
  /\ call[c].num_steps = Cardinality(call[c].checked_words)

\* a step of call c marks exactly the headwords it pushes, all of them new, and a
\* pop leaves the visited set as it is
MarksWhatItPushes(c) ==
  LET before == PendingWords(c) \cup OutputWords(c)
      after == {x.entry.word : x \in Range(call'[c].seeds)}
               \cup {e.word : e \in Range(call'[c].result)}
  IN /\ call'[c].checked_words = call[c].checked_words \cup (after \ before)
     /\ (after \ before) \cap call[c].checked_words = {}
     /\ call'[c].num_steps - call[c].num_steps = Cardinality(after \ before)
     /\ (call[c].pc = "pop" /\ call'[c].pc = "rel")
          => call'[c].checked_words = call[c].checked_words

\* C11: every headword is pushed onto the queue at most once, a push marks its
\* headword as visited in the same step, and a pop neither marks nor unmarks.
C11_MarkedAtDiscovery ==
  [](\A c \in Procs : PushedOncePerHeadword(c))
  /\ [][\A c \in Procs : MarksWhatItPushes(c)]_vars

\* after a pop: some headwords are in the output, others pending, and a step of the
\* fan-out found an entry whose headword was visited before and did not push it
C11_Witness ==
  \E c \in Procs :
    /\ call[c].pc = "cooc"
    /\ Len(call[c].result) >= 2 /\ Len(call[c].seeds) >= 1
    /\ call[c].num_steps > Len(call[c].seed_entries)
    /\ \E w \in Range(call[c].entry.related) : w \in OutputWords(c)

\* the tokens GetFeatures reads, in reading order: 20 of each list at most
TokensRead(entry) ==
  LET rel_words == Head20(entry.related)
      trans == Head20(entry.translation)
      coocs == Head20(entry.cooccurrence)
  IN [i \in 1..Len(rel_words) |-> NormalizeWord(rel_words[i])]
     \o [i \in 1..Len(trans) |-> RegexSubSuffix(NormalizeWord(trans[i]), FeatureSuffixes)]
     \o [i \in 1..Len(coocs) |-> NormalizeWord(coocs[i])]

PosKeys(entry) == {<<"__", it.pos>> : it \in Range(entry.item)}

\* the tokens the passes introduce, in the order they come in first
NewTokens(entry) ==
  SelectSeq(UniqAppend(TokensRead(entry), 1, <<>>),
            LAMBDA t : t # NormalizeWord(entry.word) /\ t \notin PosKeys(entry))

\* score *= SCORE_DECAY, k times from 1.0
RECURSIVE Decayed(_)
Decayed(k) == IF k = 0 THEN One ELSE (Decayed(k - 1) * SCORE_DECAY) \div One

\* C12: in GetFeatures the k-th newly introduced token, counted across the relation,
\* translation and co-occurrence passes without a reset, has the weight 0.95^k; a
\* token already present consumes no decay step, at most 20 items of a list are
\* read, and the headword has the weight 1.0.
C12_DecayByNewTokens ==
  \A c \in Procs :
    At(c, "GetFeatures", "done") =>
      LET entry == call[c].entry
          new == NewTokens(entry)
          features == call[c].ret
      IN /\ features[NormalizeWord(entry.word)] = One
         /\ DOMAIN features = {NormalizeWord(entry.word)} \cup PosKeys(entry) \cup Range(new)
         /\ \A k \in 1..Len(new) : features[new[k]] = Decayed(k)
         /\ \A k \in 1..(Len(new) - 1) : features[new[k + 1]] < features[new[k]]

\* an entry with more than 20 related words, a repeated word and its own headword
\* among them, whose translation pass goes on from the 20th decay step
C12_Witness ==
  \E c \in Procs :
    /\ At(c, "GetFeatures", "done")
    /\ Len(call[c].entry.related) > FeatureItems
    /\ Len(NewTokens(call[c].entry)) > FeatureItems
    /\ Len(TokensRead(call[c].entry)) > Len(NewTokens(call[c].entry)) + 1
    /\ call[c].entry.related[FeatureItems + 1] \notin DOMAIN call[c].ret
    /\ \E t \in Range(call[c].entry.translation) :
         t \in DOMAIN call[c].ret /\ call[c].ret[t] < Decayed(FeatureItems - 1)

\* the keys two feature vectors share
SharedKeys(f, g) == DOMAIN f \cap DOMAIN g

\* C13: GetSimilarity(F, F) is 1.0 for a non-empty F with positive weights, every
\* score is within [0, 1], and the score is 0 when the candidate has no key of the
\* seed vector.
C13_SimilarityRange ==
  \A c \in Procs :
    At(c, "GetSimilarity", "done") =>
      /\ 0 <= call[c].ret /\ call[c].ret <= One
      /\ (call[c].seed_features = call[c].cand_features /\ DOMAIN call[c].seed_features # {})
           => call[c].ret = One
      /\ SharedKeys(call[c].seed_features, call[c].cand_features) = {} => call[c].ret = 0

\* a vector of several keys and different weights compared with itself
C13_Witness ==
  \E c \in Procs :
    /\ At(c, "GetSimilarity", "done")
    /\ call[c].seed_features = call[c].cand_features
    /\ Cardinality(DOMAIN call[c].seed_features) >= 2
    /\ \E k1, k2 \in DOMAIN call[c].seed_features :
         call[c].seed_features[k1] < call[c].seed_features[k2]
    /\ call[c].ret = One

\* C14 as stated: once a pop has accepted 8 neighbours the co-occurrence step pushes
\* nothing more, and a pop that enters a co-occurrence step with fewer than 8
\* accepted neighbours never has more than 8, whatever number of entries the
\* co-occurrence word resolves to.
C14_CooccurrenceCap ==
  [][\A c \in Procs :
       call[c].pc = "cooc" =>
         /\ call[c].num_appends >= MaxAppends =>
              call'[c].checked_words = call[c].checked_words
         /\ call[c].num_appends < MaxAppends =>
              call'[c].num_appends <= MaxAppends]_vars

\* a translation step of call c that asks the reverse lookup
LooksUp(c) ==
  call[c].pc = "tran" /\ call'[c].checked_trans # call[c].checked_trans

\* the entries stored under the words the index lists for tran that have tran among
\* their translations and are not visited by call c
Adoptable(c, tran) ==
  {e \in UNION {Range(SearchBody(w)) : w \in Range(SearchTranIndex(tran))} :
     e.word \notin call[c].checked_words /\ TranMatch(e, <<NormalizeWord(tran)>>)}

\* C15: for one translation the reverse lookup is asked for at most
\* min(capacity - |visited|, 10) entries, and at most 5 entries are accepted, each
\* marked visited and pushed.
C15_PerTranslationCap ==
  [](\A c \in Procs : call[c].num_tran_adopts <= MaxTranAdopts
                      /\ call[c].max_children <= MaxChildren)
  /\ [][\A c \in Procs :
          LooksUp(c) =>
            LET accepted == call'[c].checked_words \ call[c].checked_words
                room == call[c].exp_capacity - Cardinality(call[c].checked_words)
            IN /\ call'[c].max_children = Min(room, MaxChildren)
               /\ Cardinality(accepted) = call'[c].num_tran_adopts
               /\ Cardinality(accepted) <= Min(call'[c].max_children, MaxTranAdopts)
               /\ call'[c].num_steps - call[c].num_steps = Cardinality(accepted)
               /\ call'[c].num_appends - call[c].num_appends = Cardinality(accepted)]_vars

\* five entries were accepted for a translation and a confirmed, unvisited entry of
\* that translation is left over
C15_Witness ==
  \E c \in Procs :
    /\ call[c].pc = "tran"
    /\ call[c].num_tran_adopts = MaxTranAdopts
    /\ call[c].max_children > MaxTranAdopts
    /\ call[c].k > 1
    /\ Adoptable(c, StripTran(call[c].trans[call[c].k - 1])) # {}

\* call c is about to process a translation: the loop of line 181 has one left and
\* the capacity test of line 182 passes
AtTranslation(c) ==
  /\ call[c].pc = "tran"
  /\ call[c].k <= Len(call[c].trans)
  /\ Cardinality(call[c].checked_words) < call[c].exp_capacity

\* C16: the set of visited translations belongs to the whole expansion call: it only
\* grows, a stripped translation in it is skipped without a storage read and
\* without a push, and a translation that is looked up is put into the set by the
\* same step, so that it is looked up at most once in the call.
C16_TranslationLookedUpOnce ==
  [][\A c \in Procs :
       /\ call[c].checked_trans \subseteq call'[c].checked_trans
       /\ AtTranslation(c) =>
            LET tran == StripTran(call[c].trans[call[c].k])
            IN IF tran \in call[c].checked_trans
               THEN /\ call'[c].reads = call[c].reads
                    /\ call'[c].checked_trans = call[c].checked_trans
                    /\ call'[c].checked_words = call[c].checked_words
                    /\ call'[c].seeds = call[c].seeds
               ELSE /\ call'[c].reads > call[c].reads
                    /\ call'[c].checked_trans = call[c].checked_trans \cup {tran}]_vars

\* a later pop meets a translation that an earlier pop looked up, written differently
\* before the suffix is stripped
C16_Witness ==
  \E c \in Procs :
    /\ AtTranslation(c)
    /\ Len(call[c].result) >= 2
    /\ StripTran(call[c].trans[call[c].k]) \in call[c].checked_trans
    /\ \E e \in Range(SubSeq(call[c].result, 1, Len(call[c].result) - 1)) :
         \E t \in Range(e.translation) :
           /\ t # call[c].trans[call[c].k]
           /\ StripTran(t) = StripTran(call[c].trans[call[c].k])

\* the related, parent and child words in append order
Merged(entry) == entry.related \o entry.parent \o entry.child

\* the key of the word at position p of the merged list: 0, 1 or 2 for its list plus
\* its index in that list
MergeKey(entry, p) ==
  IF p <= Len(entry.related) THEN 0 + (p - 1)
  ELSE IF p <= Len(entry.related) + Len(entry.parent)
       THEN 1 + (p - Len(entry.related) - 1)
       ELSE 2 + (p - Len(entry.related) - Len(entry.parent) - 1)

\* the place of position p after a stable ascending sort by key
MergeRank(entry, p) ==
  1 + Cardinality({q \in 1..Len(Merged(entry)) :
                     \/ MergeKey(entry, q) < MergeKey(entry, p)
                     \/ MergeKey(entry, q) = MergeKey(entry, p) /\ q < p})

RankedWords(entry) ==
  [r \in 1..Len(Merged(entry)) |->
     Merged(entry)[CHOOSE p \in 1..Len(Merged(entry)) : MergeRank(entry, p) = r]]

\* the fan-out of the popped entry of call c is in progress
InFanOut(c) == call[c].pc \in {"rel", "tran", "cooc"}

\* C17: the words the relation fan-out of a popped entry examines are the first
\* maxRelated words of the related, parent and child lists appended in that order
\* and stably sorted by (0, 1 or 2) + index; they are examined in that order.
C17_RelationOrder ==
  [](\A c \in Procs :
       InFanOut(c) =>
         LET ranked == RankedWords(call[c].entry)
             max_rel_words == FanOut(16, 4, Len(call[c].result), call[c].score)
         IN call[c].rel_words = SubSeq(ranked, 1, Min(max_rel_words, Len(ranked))))
  /\ [][\A c \in Procs :
          (call[c].pc = "rel" /\ call'[c].pc = "rel") =>
            /\ call'[c].k = call[c].k + 1
            /\ call'[c].rel_words = call[c].rel_words
            /\ \A w \in call'[c].checked_words \ call[c].checked_words :
                 \E e \in Range(SearchBody(NormalizeWord(call[c].rel_words[call[c].k]))) :
                   e.word = w]_vars

\* a popped entry whose sorted list differs from the append order and is cut to
\* maxRelated words, a parent word coming before a related word
C17_Witness ==
  \E c \in Procs :
    /\ call[c].pc = "rel" /\ call[c].k > 1
    /\ Len(call[c].rel_words) < Len(Merged(call[c].entry))
    /\ call[c].rel_words # SubSeq(Merged(call[c].entry), 1, Len(call[c].rel_words))
    /\ \E i, j \in 1..Len(call[c].rel_words) :
         /\ i < j
         /\ call[c].rel_words[i] \in Range(call[c].entry.parent)
         /\ call[c].rel_words[j] \in Range(call[c].entry.related)

\* the call s as it was made: its operation and arguments
AsCalled(s) ==
  NewCall(s.op, s.text,
          IF s.op \in {"SearchRelated", "SearchRelatedReverse"} THEN <<>> ELSE s.seed_entries,
          IF s.op = "ExpandEntries" THEN s.seed_features ELSE <<>>,
          s.capacity)

\* the next step of a call that runs with no other call beside it
StepAlone(s) ==
  CASE s.pc = "start" /\ s.op = "SearchExact" ->
         With(SearchExact(s.text, s.capacity), LAMBDA found :
           [s EXCEPT !.ret = found.result, !.reads = found.reads, !.pc = "done"])
    [] s.pc = "start" /\ s.op = "SearchExactReverse" ->
         With(SearchExactReverse(s.text, s.capacity), LAMBDA found :
           [s EXCEPT !.ret = found.result, !.reads = found.reads, !.pc = "done"])
    [] s.pc = "start" /\ s.op \in {"SearchRelated", "SearchRelatedReverse"} ->
         With(ResolveSeeds(s.op = "SearchRelatedReverse", SplitComma(s.text), 1, s.capacity,
                           [result |-> <<>>, reads |-> 0]),
              LAMBDA found : [s EXCEPT !.seed_entries = found.result, !.reads = found.reads,
                                       !.pc = "with_seeds"])
    [] s.pc = "with_seeds" \/ (s.pc = "start" /\ s.op = "SearchRelatedWithSeeds") ->
         With(AggregateSeeds(s.seed_entries), LAMBDA agg :
           [s EXCEPT !.seed_features = agg.seed_features, !.weights = agg.weights,
                     !.exp_capacity = ExpandCapacity(s.capacity), !.pc = "seeds"])
    [] s.pc = "start" /\ s.op = "ExpandEntries" ->
         [s EXCEPT !.exp_capacity = s.capacity, !.pc = "seeds"]
    [] s.pc = "seeds" -> SeedStep(s)
    [] s.pc = "pop" /\ s.seeds # <<>> -> PopStep(s)
    [] s.pc = "pop" /\ s.seeds = <<>> ->
         [s EXCEPT !.pc = "done",
                   !.ret = IF s.op \in RelatedOps THEN Slice(s.result, s.capacity)
                           ELSE s.result]
    [] s.pc = "rel" -> RelStep(s)
    [] s.pc = "tran" -> TranStep(s)
    [] s.pc = "cooc" -> CoocStep(s)

\* the call s run to its end with no other call beside it
RECURSIVE RunAlone(_)
RunAlone(s) ==
  IF s.pc = "done" THEN s ELSE With(StepAlone(s), LAMBDA next : RunAlone(next))

\* a step belongs to one call and changes nothing of the other calls
OneCallSteps ==
  \E c \in Procs : \A d \in Procs \ {c} : call'[d] = call[d]

\* C18: two calls on one searcher, interleaved step by step on an unchanged store,
\* each return what they return when run alone; a step of one call changes no
\* variable of the other and nothing of the searcher is written.
C18_InterleavingIndependent ==
  []((\A c \in Procs : call[c].pc = "done") =>
       \A c \in Procs :
         With(RunAlone(AsCalled(call[c])), LAMBDA alone :
           call[c].ret = alone.ret /\ call[c].reads = alone.reads))
  /\ [][OneCallSteps /\ UNCHANGED <<body_dbm, tran_index_dbm>>]_vars

\* two different expansions have finished, each with several entries, and they
\* looked up a common translation
C18_Witness ==
  /\ \A c \in Procs : call[c].pc = "done" /\ call[c].op \in SeedOps /\ Len(call[c].ret) >= 2
  /\ call[1].ret # call[2].ret
  /\ call[1].checked_trans \cap call[2].checked_trans # {}
  /\ call[1].checked_trans # call[2].checked_trans

\* the entries of the pending queue followed by those of the output
PushedEntries(c) ==
  [i \in 1..Len(call[c].seeds) |-> call[c].seeds[i].entry] \o call[c].result

\* each pushed entry is either pending or in the output, once
InQueueOrOutput(c) ==
  /\ Len(PushedEntries(c)) = call[c].num_steps
  /\ \A i, j \in 1..Len(PushedEntries(c)) :
       i # j => PushedEntries(c)[i].word # PushedEntries(c)[j].word
  /\ \A i, j \in 1..Len(call[c].seeds) :
       i # j => call[c].seeds[i].steps # call[c].seeds[j].steps

\* the expansion of call c has returned with an empty queue and everything pushed,
\* the first seed of each headword included, in its output
Drained(c) ==
  /\ call[c].seeds = <<>>
  /\ Len(call[c].result) = call[c].num_steps
  /\ \A i \in 1..Len(call[c].seed_entries) :
       (\A j \in 1..(i - 1) : call[c].seed_entries[j].word # call[c].seed_entries[i].word)
         => call[c].seed_entries[i] \in Range(call[c].result)

\* C19: every pushed entry is in exactly one of the pending queue and the output;
\* while the queue is not empty the loop pops, whatever the size of the visited set,
\* and it returns only with an empty queue, the output holding every pushed entry
\* and every seed of a distinct headword.
C19_QueueDrained ==
  [](\A c \in Procs :
       /\ InQueueOrOutput(c)
       /\ call[c].pc = "done" => Drained(c))
  /\ [][\A c \in Procs :
          /\ (call[c].pc = "pop" /\ call[c].seeds # <<>>) =>
               /\ call'[c].pc = "rel"
               /\ Len(call'[c].seeds) = Len(call[c].seeds) - 1
               /\ call'[c].result = Append(call[c].result, call'[c].entry)
          /\ (call[c].pc = "pop" /\ call'[c].pc = "done") => call[c].seeds = <<>>]_vars

\* an expansion that reached its capacity with several candidates pending has
\* returned all of them
C19_Witness ==
  \E c \in Procs :
    /\ call[c].pc = "done" /\ call[c].op = "ExpandEntries"
    /\ call[c].exp_capacity >= 1
    /\ Cardinality(call[c].checked_words) >= call[c].exp_capacity
    /\ Len(call[c].result) >= 3
    /\ Len(call[c].seed_entries) > Cardinality({e.word : e \in Range(call[c].seed_entries)})
    /\ Drained(c)

\* the source words the reverse index lists for the terms of the query
ListedFor(text) == UNION {Range(SearchTranIndex(q)) : q \in QueryTerms(text)}

\* C20 as stated: SearchExactReverse that returns fewer entries than its capacity
\* has, for every headword the reverse index lists for a query term and some stored
\* entry of that headword confirms, an entry of that headword in its result, also
\* when an entry of the same headword that does not confirm is stored before it.
C20_ReverseLookupComplete ==
  \A c \in Procs :
    (call[c].op = "SearchExactReverse" /\ call[c].pc = "done"
     /\ Len(call[c].ret) < call[c].capacity)
      => \A W \in ListedFor(call[c].text) :
           (\E e \in StoredEntries : e.word = W /\ Confirms(e, call[c].text))
             => \E r \in Range(call[c].ret) : r.word = W

====
